---- MODULE Spec2Model ----
(***************************************************************************)
(* Model of scheduler.py: the Round Robin and Earliest Deadline First      *)
(* simulations (rr, edf), the admission step update_ready_queue, the       *)
(* deadline check check_status and calculate_metrics.                      *)
(*                                                                         *)
(* Process objects are identified by their position in the list that       *)
(* read_processes returns (1..n); the Python lists processes, ready_queue  *)
(* and cpu hold references, modelled as sequences of these identities.     *)
(***************************************************************************)
EXTENDS Integers, Sequences, FiniteSets, TLC

\* ---------------------------------------------------------------- bounds
MaxProcs == 3
MaxArrival == 1
MaxBurst == 3
MaxDeadline == 2
MaxQuantum == 2
\* the largest input of the runs checked for termination
LiveProcs == 2
\* the burst of the long single process
LongBurst == 20000

\* None of Python, for the integer attributes that start unset
None == -1

VARIABLES
    entry,          \* what the caller invokes: "rr", "edf", the script ("main": rr
                    \* then edf), or edf then rr on two lists ("edf_rr")
    input,          \* the process descriptors of the input file, in file order
    quantum,        \* the quantum argument
    todo,           \* the scheduler calls still to be made by the caller
    policy,         \* the scheduler of the current or last run ("none" before the first)
    objs,           \* the process objects of the current run, by identity
    processes,      \* the pending pool (list `processes` of rr/edf)
    ready_queue,    \* list `ready_queue`
    cpu,            \* list `cpu` of finished processes
    current_time,   \* the module-level global `current_time`
    process,        \* local `process` of rr/edf: the dispatched process (0: none)
    running_time,   \* local `running_time` of rr
    policies,       \* dict `policies` of main: the list each scheduler returned
    metrics,        \* dict `metrics` of main: the tuple calculate_metrics returned
    outcome,        \* how the program ended: "running", "ok", "exit1", "ValueError"
    pc,             \* position in the code
    timeline,       \* who executed in each time unit of the current run (0: idle)
    requeued        \* per process: time and ready-queue length of its last re-insertion

vars == <<entry, input, quantum, todo, policy, objs, processes, ready_queue, cpu,
          current_time, process, running_time, policies, metrics, outcome, pc,
          timeline, requeued>>

\* ---------------------------------------------------------------- helpers
Min(a, b) == IF a <= b THEN a ELSE b

Range(s) == {s[i] : i \in 1..Len(s)}

\* list.remove(x): deletes the first element equal to x
RECURSIVE remove(_, _)
remove(s, x) ==
    IF s = <<>> THEN <<>>
    ELSE IF Head(s) = x THEN Tail(s)
    ELSE <<Head(s)>> \o remove(Tail(s), x)

\* insertion of x into a list sorted by key k, after the elements whose key is
\* not larger (stable)
insert_by(s, x, k) ==
    LET c == Cardinality({i \in 1..Len(s) : k[s[i]] <= k[x]})
    IN  SubSeq(s, 1, c) \o <<x>> \o SubSeq(s, c + 1, Len(s))

\* list.sort(key=...) / sorted(..., key=...): stable, ascending
RECURSIVE sort_by(_, _)
sort_by(s, k) ==
    IF s = <<>> THEN <<>>
    ELSE insert_by(sort_by(SubSeq(s, 1, Len(s) - 1), k), s[Len(s)], k)

\* process.__init__
new_process(n, d) ==
    [name |-> n, arrival_time |-> d.arrival_time, burst_time |-> d.burst_time,
     deadline |-> d.deadline, start_time |-> None, end_time |-> None,
     remaining_time |-> d.burst_time, waiting_time |-> None,
     response_time |-> None, turnaround_time |-> None, status |-> "None"]

\* read_processes: one object per line of the file, in file order
read_processes(in) == [i \in 1..Len(in) |-> new_process(i, in[i])]

arrival_key(o) == [i \in DOMAIN o |-> o[i].arrival_time]
deadline_key(o) == [i \in DOMAIN o |-> o[i].deadline]
start_key(o) == [i \in DOMAIN o |-> o[i].start_time]

\* update_ready_queue that admits only the processes that arrived earlier
RECURSIVE scan_strict(_, _, _, _, _)
scan_strict(o, ps, rq, t, i) ==
    IF i > Len(ps) THEN <<ps, rq>>
    ELSE IF o[ps[i]].arrival_time < t
         THEN scan_strict(o, remove(ps, ps[i]), Append(rq, ps[i]), t, i + 1)
         ELSE scan_strict(o, ps, rq, t, i + 1)

update_strict(o, ps, rq, t) == scan_strict(o, ps, rq, t, 1)

\* update_ready_queue that appends without removing from the pending pool
RECURSIVE scan_without_remove(_, _, _, _, _)
scan_without_remove(o, ps, rq, t, i) ==
    IF i > Len(ps) THEN <<ps, rq>>
    ELSE IF o[ps[i]].arrival_time <= t
         THEN scan_without_remove(o, ps, Append(rq, ps[i]), t, i + 1)
         ELSE scan_without_remove(o, ps, rq, t, i + 1)

update_without_remove(o, ps, rq, t) == scan_without_remove(o, ps, rq, t, 1)

\* update_ready_queue: `for process in processes` walks the list by index while
\* the body removes from it, so the element that slides into the freed slot is
\* not visited in this call.
RECURSIVE update_scan(_, _, _, _, _)
update_scan(o, ps, rq, t, i) ==
    IF i > Len(ps) THEN <<ps, rq>>
    ELSE IF o[ps[i]].arrival_time <= t
         THEN update_scan(o, remove(ps, ps[i]), Append(rq, ps[i]), t, i + 1)
         ELSE update_scan(o, ps, rq, t, i + 1)

update_ready_queue(o, ps, rq, t) == update_scan(o, ps, rq, t, 1)

\* first-dispatch bookkeeping without its `is None` test
first_dispatch_always(p, t) ==
    [p EXCEPT !.response_time = t - p.arrival_time, !.start_time = t]

\* first dispatch bookkeeping of rr and edf
first_dispatch(p, t) ==
    IF p.response_time = None
    THEN [p EXCEPT !.response_time = t - p.arrival_time, !.start_time = t]
    ELSE p

\* a slice of the whole quantum, whatever remains
slice_length_quantum(q, rem) == q

\* a slice one unit longer than the quantum
slice_length_plus_one(q, rem) == Min(q + 1, rem)

\* running_time = min(quantum, process.remaining_time)
slice_length(q, rem) == Min(q, rem)

\* check_status with a strict comparison
check_status_strict(p) ==
    IF p.end_time < p.deadline THEN [p EXCEPT !.status = "S"]
    ELSE [p EXCEPT !.status = "F"]

\* check_status
check_status(p) ==
    IF p.end_time <= p.deadline THEN [p EXCEPT !.status = "S"]
    ELSE [p EXCEPT !.status = "F"]

\* round(a / b, 2) of Python for integers a >= 0, b > 0, in hundredths; the
\* float quotient is rounded half to even on the ties a double represents
\* exactly, which are the only ties for the denominators of the model
round2(a, b) ==
    LET n == 100 * a
        q == n \div b
        r == n % b
    IN  IF 2 * r < b THEN q
        ELSE IF 2 * r > b THEN q + 1
        ELSE IF q % 2 = 0 THEN q ELSE q + 1

RECURSIVE sum(_)
sum(s) == IF s = <<>> THEN 0 ELSE Head(s) + sum(Tail(s))

\* the first element in place of the largest
max_first(s) == s[1]

\* max(iterable): the first largest element
RECURSIVE max(_)
max(s) ==
    IF Len(s) = 1 THEN s[1]
    ELSE LET m == max(SubSeq(s, 1, Len(s) - 1))
         IN  IF s[Len(s)] > m THEN s[Len(s)] ELSE m

\* calculate_metrics with the empty list guarded by the `else 0` of the averages
calculate_metrics_zero(list) ==
    [raised |-> "none", cpu |-> list, value |-> <<0, 0, 0, 0, 0, 0>>]

\* calculate_metrics: max() of an empty list raises ValueError before anything
\* else is computed; the six metrics are in hundredths
calculate_metrics(list) ==
    IF list = <<>>
    THEN [raised |-> "ValueError", cpu |-> list, value |-> <<>>]
    ELSE
    LET total_processes == Len(list)
        total_time == max([i \in 1..Len(list) |-> list[i].end_time])
        done == [i \in 1..Len(list) |->
                    [list[i] EXCEPT
                        !.turnaround_time = list[i].end_time - list[i].arrival_time,
                        !.waiting_time = list[i].end_time - list[i].arrival_time
                                            - list[i].burst_time]]
        total_waiting_time == sum([i \in 1..Len(done) |-> done[i].waiting_time])
        total_turnaround_time == sum([i \in 1..Len(done) |-> done[i].turnaround_time])
        total_response_time == sum([i \in 1..Len(done) |-> done[i].response_time])
        total_burst_time == sum([i \in 1..Len(done) |-> done[i].burst_time])
    IN  IF total_time = 0
        THEN [raised |-> "ZeroDivisionError", cpu |-> done, value |-> <<>>]
        ELSE [raised |-> "none", cpu |-> done,
              value |-> << round2(total_waiting_time, total_processes),
                           round2(total_response_time, total_processes),
                           round2(total_turnaround_time, total_processes),
                           round2(total_processes, total_time),
                           round2(100 * total_burst_time, total_time),
                           max([i \in 1..Len(done) |->
                                   round2(done[i].turnaround_time, done[i].burst_time)]) >>]

\* ---------------------------------------------------------------- inputs
Descriptors ==
    [arrival_time : 0..MaxArrival, burst_time : 1..MaxBurst, deadline : 1..MaxDeadline]

descriptor(a, b, d) == [arrival_time |-> a, burst_time |-> b, deadline |-> d]

\* the inputs of the scenarios: a single process; a late process with the
\* earlier deadline; four processes arriving together during a first slice;
\* a process arriving after the first one has completed
ScenarioA == <<descriptor(0, 5, 10)>>
ScenarioB == <<descriptor(0, 4, 10), descriptor(1, 2, 3)>>
ScenarioBurst ==
    <<descriptor(0, 2, 9), descriptor(1, 1, 9), descriptor(1, 1, 9),
      descriptor(1, 1, 9), descriptor(1, 1, 9)>>
ScenarioGap == <<descriptor(0, 1, 2), descriptor(2, 1, 2)>>

Inputs ==
    UNION {[1..n -> Descriptors] : n \in 0..MaxProcs}
        \cup {ScenarioA, ScenarioB, ScenarioBurst, ScenarioGap}

\* the quantum argument: any integer the caller passes, invalid ones included;
\* edf takes none
Quanta == -1..MaxQuantum

Init ==
    /\ entry \in {"rr", "edf", "main", "edf_rr"}
    /\ input \in Inputs
    /\ quantum \in IF entry = "edf" THEN {0}
                   ELSE IF entry = "edf_rr" THEN 1..MaxQuantum ELSE Quanta
    /\ todo = IF entry = "main" THEN <<"rr", "edf">>
              ELSE IF entry = "edf_rr" THEN <<"edf", "rr">> ELSE <<entry>>
    /\ policy = "none"
    /\ objs = <<>>
    /\ processes = <<>>
    /\ ready_queue = <<>>
    /\ cpu = <<>>
    /\ current_time = None
    /\ process = 0
    /\ running_time = 0
    /\ policies = [p \in {} |-> <<>>]
    /\ metrics = [p \in {} |-> <<>>]
    /\ outcome = "running"
    /\ pc = IF entry = "main" THEN "validate" ELSE "call"
    /\ timeline = <<>>
    /\ requeued = <<>>

\* ---------------------------------------------------------------- __main__
\* the script's validation of the quantum argument, then the call of main
validate_quantum ==
    /\ pc = "validate"
    /\ IF quantum <= 0
       THEN /\ pc' = "exit"
            /\ outcome' = "exit1"
       ELSE /\ pc' = "call"
            /\ outcome' = outcome
    /\ UNCHANGED <<entry, input, quantum, todo, policy, objs, processes, ready_queue,
                   cpu, current_time, process, running_time, policies, metrics,
                   timeline, requeued>>

\* ---------------------------------------------------------------- rr and edf
\* an entry of rr / edf that sets the global clock only when it was never set
start_keeps_clock(name) ==
    /\ pc = "call"
    /\ todo # <<>>
    /\ Head(todo) = name
    /\ policy' = name
    /\ objs' = read_processes(input)
    /\ processes' = sort_by([i \in 1..Len(input) |-> i], arrival_key(objs'))
    /\ current_time' = IF current_time = None THEN 0 ELSE current_time
    /\ cpu' = <<>>
    /\ ready_queue' = <<>>
    /\ process' = 0
    /\ running_time' = 0
    /\ timeline' = <<>>
    /\ requeued' = [i \in 1..Len(input) |-> <<>>]
    /\ pc' = "loop"
    /\ UNCHANGED <<entry, input, quantum, todo, policies, metrics, outcome>>

\* entry of rr / edf on a freshly read process list: sort by arrival time,
\* reset the global clock, empty cpu and ready_queue
start(name) ==
    /\ pc = "call"
    /\ todo # <<>>
    /\ Head(todo) = name
    /\ policy' = name
    /\ objs' = read_processes(input)
    /\ processes' = sort_by([i \in 1..Len(input) |-> i], arrival_key(objs'))
    /\ current_time' = 0
    /\ cpu' = <<>>
    /\ ready_queue' = <<>>
    /\ process' = 0
    /\ running_time' = 0
    /\ timeline' = <<>>
    /\ requeued' = [i \in 1..Len(input) |-> <<>>]
    /\ pc' = "loop"
    /\ UNCHANGED <<entry, input, quantum, todo, policies, metrics, outcome>>

rr_start == start("rr")

edf_start == start("edf")

\* `while processes or ready_queue:` holds, then update_ready_queue
loop_admit ==
    /\ pc = "loop"
    /\ processes # <<>> \/ ready_queue # <<>>
    /\ LET r == update_ready_queue(objs, processes, ready_queue, current_time)
       IN  /\ processes' = r[1]
           /\ ready_queue' = r[2]
    /\ pc' = "dispatch"
    /\ UNCHANGED <<entry, input, quantum, todo, policy, objs, cpu, current_time,
                   process, running_time, policies, metrics, outcome, timeline,
                   requeued>>

\* the idle branch without its clock tick
idle_without_tick ==
    /\ pc = "dispatch"
    /\ ready_queue = <<>>
    /\ pc' = "loop"
    /\ UNCHANGED <<entry, input, quantum, todo, policy, objs, processes, ready_queue,
                   cpu, current_time, process, running_time, policies, metrics,
                   outcome, timeline, requeued>>

\* `if not ready_queue: current_time += 1; continue`
idle ==
    /\ pc = "dispatch"
    /\ ready_queue = <<>>
    /\ current_time' = current_time + 1
    /\ timeline' = Append(timeline, 0)
    /\ pc' = "loop"
    /\ UNCHANGED <<entry, input, quantum, todo, policy, objs, processes, ready_queue,
                   cpu, process, running_time, policies, metrics, outcome, requeued>>

\* rr: pop the head of the ready queue, first-dispatch bookkeeping, slice length
rr_dispatch ==
    /\ pc = "dispatch"
    /\ policy = "rr"
    /\ ready_queue # <<>>
    /\ process' = Head(ready_queue)
    /\ ready_queue' = Tail(ready_queue)
    /\ objs' = [objs EXCEPT ![process'] = first_dispatch(@, current_time)]
    /\ running_time' = slice_length(quantum, objs[process'].remaining_time)
    /\ pc' = "slice"
    /\ UNCHANGED <<entry, input, quantum, todo, policy, processes, cpu, current_time,
                   policies, metrics, outcome, timeline, requeued>>

\* rr: one pass of `while running_time > 0`
rr_run_unit ==
    /\ pc = "slice"
    /\ running_time > 0
    /\ objs' = [objs EXCEPT ![process].remaining_time = @ - 1]
    /\ current_time' = current_time + 1
    /\ running_time' = running_time - 1
    /\ timeline' = Append(timeline, process)
    /\ LET r == update_ready_queue(objs', processes, ready_queue, current_time')
       IN  /\ processes' = r[1]
           /\ ready_queue' = r[2]
    /\ pc' = "slice"
    /\ UNCHANGED <<entry, input, quantum, todo, policy, cpu, process, policies,
                   metrics, outcome, requeued>>

\* rr: a completion that derives the status from the deadline
rr_complete_checked ==
    /\ pc = "slice"
    /\ ~(running_time > 0)
    /\ objs[process].remaining_time = 0
    /\ objs' = [objs EXCEPT ![process] =
                    check_status([@ EXCEPT !.end_time = current_time])]
    /\ cpu' = Append(cpu, process)
    /\ pc' = "loop"
    /\ UNCHANGED <<entry, input, quantum, todo, policy, processes, ready_queue,
                   current_time, process, running_time, policies, metrics, outcome,
                   timeline, requeued>>

\* rr: `if process.remaining_time == 0` after the slice
rr_complete ==
    /\ pc = "slice"
    /\ ~(running_time > 0)
    /\ objs[process].remaining_time = 0
    /\ objs' = [objs EXCEPT ![process].end_time = current_time,
                            ![process].status = "S"]
    /\ cpu' = Append(cpu, process)
    /\ pc' = "loop"
    /\ UNCHANGED <<entry, input, quantum, todo, policy, processes, ready_queue,
                   current_time, process, running_time, policies, metrics, outcome,
                   timeline, requeued>>

\* rr: the else branch, its update_ready_queue
rr_preempt_admit ==
    /\ pc = "slice"
    /\ ~(running_time > 0)
    /\ objs[process].remaining_time # 0
    /\ LET r == update_ready_queue(objs, processes, ready_queue, current_time)
       IN  /\ processes' = r[1]
           /\ ready_queue' = r[2]
    /\ pc' = "requeue"
    /\ UNCHANGED <<entry, input, quantum, todo, policy, objs, cpu, current_time,
                   process, running_time, policies, metrics, outcome, timeline,
                   requeued>>

\* rr / edf: `ready_queue.append(process)` of the else branch
requeue(name) ==
    /\ pc = "requeue"
    /\ policy = name
    /\ ready_queue' = Append(ready_queue, process)
    /\ requeued' = [requeued EXCEPT ![process] = <<current_time, Len(ready_queue')>>]
    /\ pc' = "loop"
    /\ UNCHANGED <<entry, input, quantum, todo, policy, objs, processes, cpu,
                   current_time, process, running_time, policies, metrics, outcome,
                   timeline>>

rr_requeue == requeue("rr")

\* edf: sort the ready queue by deadline, pop its head, first-dispatch bookkeeping
edf_dispatch ==
    /\ pc = "dispatch"
    /\ policy = "edf"
    /\ ready_queue # <<>>
    /\ LET sorted == sort_by(ready_queue, deadline_key(objs))
       IN  /\ process' = Head(sorted)
           /\ ready_queue' = Tail(sorted)
    /\ objs' = [objs EXCEPT ![process'] = first_dispatch(@, current_time)]
    /\ pc' = "unit"
    /\ UNCHANGED <<entry, input, quantum, todo, policy, processes, cpu, current_time,
                   running_time, policies, metrics, outcome, timeline, requeued>>

\* edf: execute the process for one unit of time, then update_ready_queue
edf_run_unit ==
    /\ pc = "unit"
    /\ objs' = [objs EXCEPT ![process].remaining_time = @ - 1]
    /\ current_time' = current_time + 1
    /\ timeline' = Append(timeline, process)
    /\ LET r == update_ready_queue(objs', processes, ready_queue, current_time')
       IN  /\ processes' = r[1]
           /\ ready_queue' = r[2]
    /\ pc' = "after_unit"
    /\ UNCHANGED <<entry, input, quantum, todo, policy, cpu, process, running_time,
                   policies, metrics, outcome, requeued>>

\* edf: `if process.remaining_time == 0`: end_time, check_status, cpu.append
edf_complete ==
    /\ pc = "after_unit"
    /\ objs[process].remaining_time = 0
    /\ objs' = [objs EXCEPT ![process] =
                    check_status([@ EXCEPT !.end_time = current_time])]
    /\ cpu' = Append(cpu, process)
    /\ pc' = "loop"
    /\ UNCHANGED <<entry, input, quantum, todo, policy, processes, ready_queue,
                   current_time, process, running_time, policies, metrics, outcome,
                   timeline, requeued>>

\* edf: the else branch, its update_ready_queue
edf_preempt_admit ==
    /\ pc = "after_unit"
    /\ objs[process].remaining_time # 0
    /\ LET r == update_ready_queue(objs, processes, ready_queue, current_time)
       IN  /\ processes' = r[1]
           /\ ready_queue' = r[2]
    /\ pc' = "requeue"
    /\ UNCHANGED <<entry, input, quantum, todo, policy, objs, cpu, current_time,
                   process, running_time, policies, metrics, outcome, timeline,
                   requeued>>

edf_requeue == requeue("edf")

\* a return as soon as the ready queue is empty, pending processes or not
return_early(name) ==
    /\ pc = "loop"
    /\ policy = name
    /\ ready_queue = <<>>
    /\ LET sorted == sort_by(cpu, start_key(objs))
       IN  policies' = policies @@ (name :> [i \in 1..Len(sorted) |-> objs[sorted[i]]])
    /\ todo' = Tail(todo)
    /\ pc' = IF todo' = <<>> THEN "metrics" ELSE "call"
    /\ UNCHANGED <<entry, input, quantum, policy, objs, processes, ready_queue, cpu,
                   current_time, process, running_time, metrics, outcome, timeline,
                   requeued>>

\* a return of cpu as it is, in completion order
return_unsorted(name) ==
    /\ pc = "loop"
    /\ policy = name
    /\ processes = <<>> /\ ready_queue = <<>>
    /\ policies' = policies @@ (name :> [i \in 1..Len(cpu) |-> objs[cpu[i]]])
    /\ todo' = Tail(todo)
    /\ pc' = IF todo' = <<>> THEN "metrics" ELSE "call"
    /\ UNCHANGED <<entry, input, quantum, policy, objs, processes, ready_queue, cpu,
                   current_time, process, running_time, metrics, outcome, timeline,
                   requeued>>

\* `return sorted(cpu, key=lambda p: p.start_time)` once the loop condition fails
return(name) ==
    /\ pc = "loop"
    /\ policy = name
    /\ processes = <<>> /\ ready_queue = <<>>
    /\ LET sorted == sort_by(cpu, start_key(objs))
       IN  policies' = policies @@ (name :> [i \in 1..Len(sorted) |-> objs[sorted[i]]])
    /\ todo' = Tail(todo)
    /\ pc' = IF todo' = <<>> THEN "metrics" ELSE "call"
    /\ UNCHANGED <<entry, input, quantum, policy, objs, processes, ready_queue, cpu,
                   current_time, process, running_time, metrics, outcome, timeline,
                   requeued>>

rr_return == return("rr")

edf_return == return("edf")

rr == rr_start \/ rr_dispatch \/ rr_run_unit \/ rr_complete \/ rr_preempt_admit
        \/ rr_requeue \/ rr_return

edf == edf_start \/ edf_dispatch \/ edf_run_unit \/ edf_complete \/ edf_preempt_admit
        \/ edf_requeue \/ edf_return

\* the caller hands each returned list to calculate_metrics, in the order of
\* the dict `policies`; an exception ends the program
metrics_step ==
    /\ pc = "metrics"
    /\ \E name \in DOMAIN policies :
        /\ name \notin DOMAIN metrics
        /\ name = "rr" \/ "rr" \notin DOMAIN policies \/ "rr" \in DOMAIN metrics
        /\ LET m == calculate_metrics(policies[name])
           IN  IF m.raised # "none"
               THEN /\ outcome' = m.raised
                    /\ pc' = "exit"
                    /\ policies' = [policies EXCEPT ![name] = m.cpu]
                    /\ metrics' = metrics
               ELSE /\ metrics' = metrics @@ (name :> m.value)
                    /\ policies' = [policies EXCEPT ![name] = m.cpu]
                    /\ IF DOMAIN metrics' = DOMAIN policies
                       THEN pc' = "exit" /\ outcome' = "ok"
                       ELSE pc' = "metrics" /\ outcome' = outcome
    /\ UNCHANGED <<entry, input, quantum, todo, policy, objs, processes, ready_queue,
                   cpu, current_time, process, running_time, timeline, requeued>>

Next == validate_quantum \/ loop_admit \/ idle \/ rr \/ edf \/ metrics_step

Spec == Init /\ [][Next]_vars

\* the runs checked for termination: the program is sequential and never stops
\* by itself, so every enabled step is eventually taken
LiveInit == Init /\ Len(input) <= LiveProcs

FairSpec == LiveInit /\ [][Next]_vars /\ WF_vars(Next)

\* ---------------------------------------------------------------- properties
\* the processes that have arrived by the clock and are not in cpu
Arrived == {i \in DOMAIN objs : objs[i].arrival_time <= current_time}
Uncompleted == {i \in DOMAIN objs : i \notin Range(cpu)}

\* the steps that call update_ready_queue
AdmitStep ==
    loop_admit \/ rr_run_unit \/ rr_preempt_admit \/ edf_run_unit \/ edf_preempt_admit

\* C1: in edf, the process dispatched for a time unit has the smallest deadline
\* among the processes that have arrived and are not completed.
C1_EarliestDeadlineRuns ==
    (policy = "edf" /\ pc = "unit") =>
        \A i \in Arrived \cap Uncompleted : objs[process].deadline <= objs[i].deadline

\* C2: after every call of update_ready_queue no process that has arrived is
\* left in the pending pool.
C2_AdmitMovesEveryArrival ==
    [][AdmitStep => \A i \in Range(processes') : objs'[i].arrival_time > current_time']_vars

\* C3: processes enter the ready queue in the order of the arrival-sorted
\* input: none is admitted while one that precedes it is still pending.
C3_AdmissionOrder ==
    LET order == sort_by([i \in 1..Len(input) |-> i], arrival_key(objs))
    IN  (policy \in {"rr", "edf"} /\ pc \notin {"call", "metrics", "exit"}) =>
            \A a, b \in 1..Len(order) :
                (a < b /\ order[a] \in Range(processes)) => order[b] \in Range(processes)

\* C4: in rr with quantum >= 1, a process put back on the ready queue at time
\* t, when the queue then holds n processes, has waited at most (n-1) * quantum
\* for as long as it sits in the queue, hence also when it is dispatched again.
C4_RRFairnessBound ==
    (policy = "rr" /\ quantum >= 1) =>
        \A i \in Range(ready_queue) :
            requeued[i] # <<>> =>
                current_time - requeued[i][1] <= (requeued[i][2] - 1) * quantum

\* a re-queued process has waited the whole bound behind at least one other
C4_Witness ==
    /\ policy = "rr" /\ quantum >= 1
    /\ \E i \in Range(ready_queue) :
        /\ requeued[i] # <<>>
        /\ requeued[i][2] >= 2
        /\ current_time - requeued[i][1] = (requeued[i][2] - 1) * quantum

\* C5: every process completed by edf has status S exactly when its end_time
\* is at most its deadline and F exactly when it is later; none is unset.
C5_EDFStatus ==
    policy = "edf" =>
        \A i \in Range(cpu) :
            /\ objs[i].status \in {"S", "F"}
            /\ objs[i].status = "S" <=> objs[i].end_time <= objs[i].deadline
            /\ objs[i].status = "F" <=> objs[i].end_time > objs[i].deadline

\* edf has completed one process on its deadline exactly and one too late
C5_Witness ==
    /\ policy = "edf"
    /\ \E i, j \in Range(cpu) :
        /\ objs[i].status = "S" /\ objs[i].end_time = objs[i].deadline
        /\ objs[j].status = "F" /\ objs[j].end_time > objs[j].deadline

\* the time units from the first dispatch of p to its completion all went to p
Uninterrupted(p) ==
    \A t \in (p.start_time + 1)..p.end_time : timeline[t] = p.name

\* C6: every process of the list returned by rr (quantum >= 1) or edf has
\* end_time >= start_time >= arrival_time and end_time - start_time >=
\* burst_time, with equality when no other process executed in between.
C6_TimeOrder ==
    (policy \in DOMAIN policies /\ (policy = "edf" \/ quantum >= 1)) =>
        \A k \in 1..Len(policies[policy]) :
            LET p == policies[policy][k]
            IN  /\ p.end_time >= p.start_time
                /\ p.start_time >= p.arrival_time
                /\ p.end_time - p.start_time >= p.burst_time
                /\ Uninterrupted(p) => p.end_time - p.start_time = p.burst_time

\* a returned list with a process that was interrupted and one that was not
C6_Witness ==
    /\ policy \in DOMAIN policies
    /\ \E k, l \in 1..Len(policies[policy]) :
        /\ policies[policy][k].end_time - policies[policy][k].start_time
                > policies[policy][k].burst_time
        /\ policies[policy][k].burst_time >= 2
        /\ Uninterrupted(policies[policy][l])
        /\ policies[policy][l].start_time > policies[policy][l].arrival_time

\* C7: for arrival_time >= 0 and burst_time >= 1 the main loop of rr (quantum
\* >= 1) and of edf ends: every scheduler call the caller makes returns, with
\* the pending pool and the ready queue empty.
C7_Termination ==
    (entry = "edf" \/ quantum >= 1) =>
        <>(todo = <<>> /\ processes = <<>> /\ ready_queue = <<>>)

\* a run over a full input, with idle time and a preemption, has returned
C7_Witness ==
    /\ todo = <<>> /\ processes = <<>> /\ ready_queue = <<>>
    /\ Len(input) = LiveProcs /\ Len(cpu) = LiveProcs
    /\ \E t \in 1..Len(timeline) : timeline[t] = 0
    /\ \E i \in DOMAIN requeued : requeued[i] # <<>>

\* the positions of the simulation loop past its head
InLoop == pc \in {"dispatch", "slice", "requeue"}

\* C8: rr called with quantum <= 0 on a non-empty list fails with an explicit
\* InvalidQuantum error and never runs the simulation loop.
C8_InvalidQuantumRejected ==
    (policy = "rr" /\ quantum <= 0 /\ input # <<>>) => ~InLoop

\* C9: calculate_metrics on an empty completed list never returns a metrics
\* tuple and ends in an explicit error, also when the list is what rr or edf
\* returned for an empty process list.
C9_EmptyMetricsRaise ==
    /\ \A name \in DOMAIN metrics : policies[name] # <<>>
    /\ (pc = "exit" /\ \E name \in DOMAIN policies : policies[name] = <<>>) =>
            outcome = "ValueError"

\* calculate_metrics was called on the empty list a scheduler returned
C9_Witness ==
    /\ pc = "exit" /\ outcome = "ValueError"
    /\ input = <<>>
    /\ \E name \in DOMAIN policies : policies[name] = <<>>

\* number of occurrences of x in the list s
Count(s, x) == Cardinality({i \in 1..Len(s) : s[i] = x})

\* each process is at most once in the three lists taken together
OnePlace ==
    \A i \in DOMAIN objs :
        Count(processes, i) + Count(ready_queue, i) + Count(cpu, i) <= 1

\* C10: within a run each process is in at most one of the pending pool, the
\* ready queue and the completed list, and at most once; a process that has
\* left the pending pool never re-enters it and one in the completed list
\* stays there.
C10_Membership ==
    /\ OnePlace
    /\ [][/\ OnePlace'
          /\ pc # "call" =>
                \A i \in DOMAIN objs :
                    /\ i \notin Range(processes) => i \notin Range(processes')
                    /\ i \in Range(cpu) => i \in Range(cpu')]_vars

\* one process is pending, one is ready and one is completed
C10_Witness ==
    /\ processes # <<>> /\ ready_queue # <<>> /\ cpu # <<>>
    /\ Cardinality(Range(processes) \cup Range(ready_queue) \cup Range(cpu)) = MaxProcs

\* the entry of the returned list `list` for the process named n
Entry(list, n) == list[CHOOSE k \in 1..Len(list) : list[k].name = n]

\* C11: on P1(0, 4, 10), P2(1, 2, 3) edf runs P1 in [0,1), P2 in [1,3) (end 3,
\* Success), then P1 up to its end at 6; rr with quantum 2 runs P1 in [0,2),
\* P2 in [2,4) (start 2, end 4) and P1 in [4,6) (end 6).
C11_ScenarioB ==
    (input = ScenarioB /\ policy \in DOMAIN policies) =>
        LET list == policies[policy]
        IN  /\ policy = "edf" =>
                /\ timeline = <<1, 2, 2, 1, 1, 1>>
                /\ Entry(list, 2).end_time = 3 /\ Entry(list, 2).status = "S"
                /\ Entry(list, 1).end_time = 6
            /\ (policy = "rr" /\ quantum = 2) =>
                /\ timeline = <<1, 1, 2, 2, 1, 1>>
                /\ Entry(list, 2).start_time = 2 /\ Entry(list, 2).end_time = 4
                /\ Entry(list, 1).end_time = 6

\* the script has run rr with quantum 2 and then edf on scenario B
C11_Witness ==
    /\ input = ScenarioB /\ entry = "main" /\ quantum = 2
    /\ DOMAIN policies = {"rr", "edf"} /\ policy = "edf"
    /\ Len(timeline) = 6

\* C12: on the single process (0, 5, 10) with quantum 2, rr and edf give
\* start_time 0 and end_time 5 with no idle unit, and calculate_metrics gives
\* AWT 0, ART 0, ATT 5, Throughput 0.2, Utilization 100, Proportionality 1.
C12_ScenarioA ==
    (input = ScenarioA /\ (entry = "edf" \/ quantum = 2)) =>
        /\ policy \in DOMAIN policies =>
            /\ timeline = <<1, 1, 1, 1, 1>>
            /\ policies[policy][1].start_time = 0
            /\ policies[policy][1].end_time = 5
        /\ \A name \in DOMAIN metrics : metrics[name] = <<0, 0, 500, 20, 10000, 100>>
        /\ pc = "exit" => outcome = "ok" /\ DOMAIN metrics = DOMAIN policies

\* the script has computed the metrics of both policies on scenario A
C12_Witness ==
    /\ input = ScenarioA /\ entry = "main" /\ quantum = 2
    /\ pc = "exit" /\ DOMAIN metrics = {"rr", "edf"}

\* ---------------------------------------------------------------- a run on its own
\* rr and edf as functions of their arguments alone: the run that starts from
\* a fresh process list with the clock at 0, whatever ran before
run_state(in) ==
    [o |-> read_processes(in),
     ps |-> sort_by([i \in 1..Len(in) |-> i], arrival_key(read_processes(in))),
     rq |-> <<>>, cpu |-> <<>>, t |-> 0, tl |-> <<>>]

\* the loop condition `while processes or ready_queue`
looping(st) == st.ps # <<>> \/ st.rq # <<>>

\* rr: the `while running_time > 0` loop on process p
RECURSIVE rr_slice(_, _, _)
rr_slice(st, p, n) ==
    IF n > 0
    THEN LET o1 == [st.o EXCEPT ![p].remaining_time = @ - 1]
             a == update_ready_queue(o1, st.ps, st.rq, st.t + 1)
         IN  rr_slice([st EXCEPT !.o = o1, !.ps = a[1], !.rq = a[2], !.t = @ + 1,
                                 !.tl = Append(@, p)],
                      p, n - 1)
    ELSE st

\* rr: one pass through the body of the main loop
rr_body(st, q) ==
    LET a == update_ready_queue(st.o, st.ps, st.rq, st.t)
    IN  IF a[2] = <<>>
        THEN [st EXCEPT !.ps = a[1], !.t = @ + 1, !.tl = Append(@, 0)]
        ELSE
        LET p == Head(a[2])
            o1 == [st.o EXCEPT ![p] = first_dispatch(@, st.t)]
            s1 == rr_slice([st EXCEPT !.o = o1, !.ps = a[1], !.rq = Tail(a[2])], p,
                           slice_length(q, o1[p].remaining_time))
        IN  IF s1.o[p].remaining_time = 0
            THEN [s1 EXCEPT !.o[p].end_time = s1.t, !.o[p].status = "S",
                            !.cpu = Append(@, p)]
            ELSE LET b == update_ready_queue(s1.o, s1.ps, s1.rq, s1.t)
                 IN  [s1 EXCEPT !.ps = b[1], !.rq = Append(b[2], p)]

\* edf: one pass through the body of the main loop
edf_body(st) ==
    LET a == update_ready_queue(st.o, st.ps, st.rq, st.t)
    IN  IF a[2] = <<>>
        THEN [st EXCEPT !.ps = a[1], !.t = @ + 1, !.tl = Append(@, 0)]
        ELSE
        LET sorted == sort_by(a[2], deadline_key(st.o))
            p == Head(sorted)
            o1 == [st.o EXCEPT ![p] = first_dispatch(@, st.t)]
            o2 == [o1 EXCEPT ![p].remaining_time = @ - 1]
            b == update_ready_queue(o2, a[1], Tail(sorted), st.t + 1)
            s1 == [st EXCEPT !.o = o2, !.ps = b[1], !.rq = b[2], !.t = @ + 1,
                             !.tl = Append(@, p)]
        IN  IF o2[p].remaining_time = 0
            THEN [s1 EXCEPT !.o[p] = check_status([@ EXCEPT !.end_time = s1.t]),
                            !.cpu = Append(@, p)]
            ELSE LET c == update_ready_queue(s1.o, s1.ps, s1.rq, s1.t)
                 IN  [s1 EXCEPT !.ps = c[1], !.rq = Append(c[2], p)]

\* one pass of the loop of rr or edf, if its condition holds
pass(name, st, q) ==
    IF ~looping(st) THEN st
    ELSE IF name = "rr" THEN rr_body(st, q) ELSE edf_body(st)

\* at most n passes of the loop: the first half of them, then the others
\* unless the condition has failed
RECURSIVE passes(_, _, _, _)
passes(name, st, q, n) ==
    IF n = 1 THEN pass(name, st, q)
    ELSE LET half == passes(name, st, q, n \div 2)
         IN  IF ~looping(half) THEN half
             ELSE passes(name, half, q, n - n \div 2)

\* the main loop: passes until the condition fails, n at a time
RECURSIVE loop(_, _, _, _)
loop(name, st, q, n) ==
    IF ~looping(st) THEN st ELSE loop(name, passes(name, st, q, n), q, 2 * n)

\* a whole call of rr / edf on its own, from the fresh state to the end of the loop
run_loop(name, in, q) == loop(name, run_state(in), q, 1)

\* the list rr / edf return when run on their own
run_alone(name, in, q) ==
    LET st == run_loop(name, in, q)
        sorted == sort_by(st.cpu, start_key(st.o))
    IN  [i \in 1..Len(sorted) |-> st.o[sorted[i]]]

\* what a schedule says of each process
Schedule(list) ==
    [k \in 1..Len(list) |->
        <<list[k].name, list[k].start_time, list[k].end_time, list[k].status>>]

\* C13: the schedule rr or edf returns on its own copy of the input is the one
\* it returns when run alone, whichever scheduler ran before it and whatever
\* value that run left in the global current_time.
C13_NoSharedState ==
    \A name \in DOMAIN policies :
        Schedule(policies[name]) = Schedule(run_alone(name, input, quantum))

\* a second run has returned after a first one that left the clock past 0,
\* and it idled at its own time 0
C13_Witness ==
    /\ entry \in {"main", "edf_rr"}
    /\ DOMAIN policies = {"rr", "edf"}
    /\ pc = "metrics"
    /\ Len(input) >= 2
    /\ timeline # <<>> /\ timeline[1] = 0

\* C14: the list rr and edf return is in ascending start_time order, whatever
\* the order in which the processes completed.
C14_ResultOrder ==
    \A name \in DOMAIN policies :
        \A k \in 1..(Len(policies[name]) - 1) :
            policies[name][k].start_time <= policies[name][k + 1].start_time

\* a returned list whose order differs from the completion order
C14_Witness ==
    /\ policy \in DOMAIN policies
    /\ Len(cpu) >= 2
    /\ [k \in 1..Len(cpu) |-> policies[policy][k].name] # cpu

\* C15: when rr (quantum >= 1) puts a preempted process back at the tail of
\* the ready queue, every other process that has arrived and is not completed
\* is already in the ready queue, ahead of it.
C15_RequeueBehindAllArrived ==
    [][(rr_requeue /\ quantum >= 1) =>
          \A i \in (Arrived \cap Uncompleted) \ {process} : i \in Range(ready_queue)]_vars

\* C16: in rr (quantum >= 1) and edf every process has 0 <= remaining_time <=
\* burst_time, and it is in the completed list exactly when its remaining_time
\* is 0 (the dispatched process reaches 0 just before it is appended).
C16_RemainingTime ==
    ((policy = "rr" /\ quantum >= 1) \/ policy = "edf") =>
        \A i \in DOMAIN objs :
            /\ 0 <= objs[i].remaining_time
            /\ objs[i].remaining_time <= objs[i].burst_time
            /\ i \in Range(cpu) => objs[i].remaining_time = 0
            /\ objs[i].remaining_time = 0 =>
                    \/ i \in Range(cpu)
                    \/ i = process /\ pc \in {"slice", "after_unit"}

\* one process is completed while another is part-way through its burst
C16_Witness ==
    /\ cpu # <<>>
    /\ \E i \in DOMAIN objs :
        /\ i \notin Range(cpu)
        /\ 0 < objs[i].remaining_time /\ objs[i].remaining_time < objs[i].burst_time

\* C17: rr gives every process it completes the status S whatever its
\* deadline, and never sets F.
C17_RRAlwaysSuccess ==
    /\ policy = "rr" =>
        /\ \A i \in Range(cpu) : objs[i].status = "S"
        /\ \A i \in DOMAIN objs : objs[i].status # "F"
    /\ "rr" \in DOMAIN policies =>
        \A k \in 1..Len(policies["rr"]) : policies["rr"][k].status = "S"

\* rr has returned a process that ended after its deadline, with status S
C17_Witness ==
    /\ "rr" \in DOMAIN policies
    /\ \E k \in 1..Len(policies["rr"]) :
        /\ policies["rr"][k].end_time > policies["rr"][k].deadline
        /\ policies["rr"][k].status = "S"

\* C18: in rr (quantum >= 1) and edf the clock goes through an idle unit only
\* when no process that has arrived is uncompleted, pending ones included.
C18_WorkConserving ==
    [][(idle /\ (policy = "edf" \/ quantum >= 1)) =>
          Arrived \cap Uncompleted = {}]_vars

\* an idle unit after a first process has completed, the next one still pending
C18_Witness ==
    /\ cpu # <<>>
    /\ processes # <<>>
    /\ timeline # <<>> /\ timeline[Len(timeline)] = 0

\* C19: the list rr (quantum >= 1) or edf returns holds every process of the
\* input exactly once, each with remaining_time 0, start_time, end_time and
\* status set; a process that misses its deadline is there too.
C19_Complete ==
    \A name \in DOMAIN policies :
        (name = "edf" \/ quantum >= 1) =>
            LET list == policies[name]
            IN  /\ Len(list) = Len(input)
                /\ {list[k].name : k \in 1..Len(list)} = 1..Len(input)
                /\ \A k \in 1..Len(list) :
                    /\ list[k].remaining_time = 0
                    /\ list[k].start_time # None
                    /\ list[k].end_time # None
                    /\ list[k].status \in {"S", "F"}

\* edf has returned a list of MaxProcs processes, one of which missed its deadline
C19_Witness ==
    /\ "edf" \in DOMAIN policies
    /\ Len(policies["edf"]) >= MaxProcs
    /\ \E k \in 1..Len(policies["edf"]) : policies["edf"][k].status = "F"

\* ---------------------------------------------------------------- a call as one step
\* a single process that arrives at 1 and then runs for LongBurst units
ScenarioLong == <<descriptor(1, LongBurst, LongBurst)>>

CallInputs == Inputs \cup {ScenarioLong}

\* a caller about to call rr (quantum >= 1) or edf on a list
CallInit ==
    /\ entry \in {"rr", "edf"}
    /\ input \in CallInputs
    /\ quantum \in IF entry = "edf" THEN {0} ELSE 1..MaxQuantum
    /\ todo = <<entry>>
    /\ policy = "none"
    /\ objs = <<>>
    /\ processes = <<>>
    /\ ready_queue = <<>>
    /\ cpu = <<>>
    /\ current_time = None
    /\ process = 0
    /\ running_time = 0
    /\ policies = [p \in {} |-> <<>>]
    /\ metrics = [p \in {} |-> <<>>]
    /\ outcome = "running"
    /\ pc = "call"
    /\ timeline = <<>>
    /\ requeued = <<>>

\* the whole call of rr / edf, from its entry to its return
call(name) ==
    /\ pc = "call"
    /\ todo # <<>>
    /\ Head(todo) = name
    /\ policy' = name
    /\ LET st == run_loop(name, input, quantum)
       IN  /\ objs' = st.o
           /\ processes' = st.ps
           /\ ready_queue' = st.rq
           /\ cpu' = st.cpu
           /\ current_time' = st.t
           /\ timeline' = st.tl
    /\ policies' = policies @@ (name :> run_alone(name, input, quantum))
    /\ todo' = Tail(todo)
    /\ pc' = IF todo' = <<>> THEN "metrics" ELSE "call"
    /\ UNCHANGED <<entry, input, quantum, process, running_time, metrics, outcome,
                   requeued>>

rr_call == call("rr")

edf_call == call("edf")

CallNext == rr_call \/ edf_call \/ metrics_step

CallSpec == CallInit /\ [][CallNext]_vars

\* a single call of rr (quantum >= 1) or edf has returned a non-empty list and
\* calculate_metrics has computed its metrics
Measured ==
    /\ entry \in {"rr", "edf"}
    /\ entry = "edf" \/ quantum >= 1
    /\ entry \in DOMAIN metrics

total_burst == sum([k \in 1..Len(policies[entry]) |-> policies[entry][k].burst_time])

makespan == max([k \in 1..Len(policies[entry]) |-> policies[entry][k].end_time])

utilization == metrics[entry][5]

NoIdleUnit ==
    /\ Len(timeline) = makespan
    /\ \A k \in 1..Len(timeline) : timeline[k] # 0

\* C20: for a non-empty list returned by rr (quantum >= 1) or edf, the sum of
\* burst_time is at most the makespan, with equality exactly when no time unit
\* of [0, makespan) was idle; the utilization of calculate_metrics (in
\* hundredths) never exceeds 100 and is 100 whenever no unit was idle.
C20_Capacity ==
    Measured =>
        /\ total_burst <= makespan
        /\ total_burst = makespan <=> NoIdleUnit
        /\ utilization <= 10000
        /\ NoIdleUnit => utilization = 10000

\* C20 as stated: the utilization is 100 exactly when no unit was idle
C20_ExactlyWhenNoIdle ==
    Measured =>
        /\ total_burst <= makespan
        /\ utilization <= 10000
        /\ utilization = 10000 <=> NoIdleUnit

\* a utilization below 100 after an idle unit in the middle of the run
C20_Witness ==
    /\ Measured
    /\ Len(policies[entry]) >= 2
    /\ \E k \in 2..Len(timeline) : timeline[k] = 0 /\ timeline[k - 1] # 0
    /\ utilization < 10000

====
